---- MODULE Spec2Model ----
(***************************************************************************)
(* Model of docker.go: the DockerClient facade (NewClient, Build, Run,    *)
(* Push, Pull, getImageID, Tag) and runCommand, the supervised subprocess *)
(* runner with its reader goroutine, its watchdog goroutine and the       *)
(* select loop that arbitrates between them.                              *)
(*                                                                         *)
(* Strings are TLA+ strings (\o is Go's +).  The result of the            *)
(* `images -q` query, which the code inspects character by character, is  *)
(* a sequence of one-character strings.                                   *)
(***************************************************************************)
EXTENDS Integers, Sequences, FiniteSets, TLC

(* ------------------------------ bounds -------------------------------- *)
\* lines the external process writes in one run
MaxLines == 2
\* lines an OS pipe holds before the writer blocks
PipeCap == 1
\* daemon probes the watchdog issues in one run
MaxProbes == 2
\* length of the volume list and of the env var list of a Run
MaxArgs == 2
\* characters in the result of the `images -q` query
MaxQueryLen == 3

(* ----------------------------- constants ------------------------------ *)
DEF_DOCKERFILE_NAME == "Dockerfile"
DEF_REGISTRY_HOST == "docker.io"
\* capacity of the `out` channel: make(chan string, 1)
OutCap == 1

NilErr == "nil"
LostConnection == "Lost connection to Docker daemon"
NoClient == [nil |-> TRUE]

\* text of the i-th line the process writes, by stream (1 stdout, 2 stderr)
StdoutText == <<"a", "b", "c", "d", "e">>
StderrText == <<"x", "y", "z", "w", "v">>

VARIABLES
  d,              \* the DockerClient the calls are made on
  ctl,            \* position of the calling goroutine
  command_string, \* runCommand's first result
  output,         \* runCommand's second result, accumulated by the loop
  err,            \* runCommand's third result
  spawned,        \* argv and directory of the process cmd.Start started
  showOutput,     \* runCommand's parameter showOutput
  script,         \* what the external process has still to write
  proc,           \* "none", "running", "closed" (streams closed), "exited"
  exitOutcome,    \* what cmd.Wait will report
  so, se,         \* contents of the stdout / stderr pipes
  pipesClosed,    \* the process closed its ends of both pipes
  rd,             \* position of the reader goroutine
  t,              \* the reader's variable t
  out,            \* buffer of channel out
  outClosed,      \* close(out) has happened
  echoed,         \* lines printed by fmt.Println
  wd,             \* position of the watchdog goroutine
  dc, dcErr,      \* the watchdog's client and the error of its construction
  probes,         \* results of the probes issued so far
  crashed,        \* a goroutine panicked: the program is gone
  read,           \* history: lines scanner.Text() returned
  sent,           \* history: lines the reader put on out
  atSignal,       \* history: sent, out and proc when the loop took the timeout case
  fres,           \* result of the last facade operation
  fspawn,         \* argv of the processes the facade operations spawned
  call            \* history: the facade operation called and its arguments

runVars == <<ctl, command_string, output, err, spawned, showOutput,
          script, proc,
             exitOutcome, so, se, pipesClosed, rd, t, out, outClosed, echoed,
             wd, dc, dcErr, probes, crashed, read, sent, atSignal, call>>
vars == <<d, ctl, command_string, output, err, spawned, showOutput,
          script, proc,
          exitOutcome, so, se, pipesClosed, rd, t, out, outClosed, echoed,
          wd, dc, dcErr, probes, crashed, read, sent, atSignal, fres, fspawn, call>>

(* ------------------------------ helpers ------------------------------- *)
RECURSIVE Join(_, _)
\* strings.Join
Join(parts, sep) ==
  IF parts = <<>> THEN ""
  ELSE IF Len(parts) = 1 THEN parts[1]
  ELSE parts[1] \o sep \o Join(Tail(parts), sep)

RECURSIVE Concat(_)
\* the lines of a history, one after the other
Concat(ls) == IF ls = <<>> THEN "" ELSE ls[1] \o Concat(Tail(ls))

RECURSIVE FlagEach(_, _)
\* for _, v := range xs { cmd_args = append(cmd_args, flag, v) }
FlagEach(flag, xs) ==
  IF xs = <<>> THEN <<>> ELSE <<flag, xs[1]>> \o FlagEach(flag, Tail(xs))

SeqsUpTo(S, n) == UNION {[1..k -> S] : k \in 0..n}

\* scripts: which stream each successive line goes to
Scripts == SeqsUpTo({1, 2}, MaxLines)

LineText(i, fd) == IF fd = 1 THEN StdoutText[i] ELSE StderrText[i]

\* the writes of a script: stream and text of each line
Writes(fds) == [i \in 1..Len(fds) |-> [fd |-> fds[i], line |-> LineText(i, fds[i])]]

(* ------------------------------ NewClient ----------------------------- *)
\* the metadata file: unreadable, or readable with the id its first
\* matching line carries ("" when no line matches), or failing mid-scan
CgroupFiles == {[open |-> FALSE, id |-> "", scanErr |-> FALSE],
                [open |-> TRUE, id |-> "", scanErr |-> FALSE],
                [open |-> TRUE, id |-> "", scanErr |-> TRUE],
                [open |-> TRUE, id |-> "abc123", scanErr |-> FALSE]}

getParentContainerId(f) ==
  IF ~f.open THEN [id |-> "", err |-> "open /proc/1/cgroup"]
  ELSE IF f.id # "" THEN [id |-> f.id, err |-> NilErr]
  ELSE [id |-> "", err |-> IF f.scanErr THEN "read /proc/1/cgroup" ELSE NilErr]

\* exec.LookPath("docker"): the path found, or "" when there is none
LookPaths == {"", "/usr/bin/docker"}

\* NewClient returning the error of the container detection
NewClient_Strict(lp, f) ==
  IF lp = "" THEN [dc |-> NoClient, err |-> "executable file not found in $PATH"]
  ELSE LET r == getParentContainerId(f)
       IN IF r.err # NilErr THEN [dc |-> NoClient, err |-> r.err] ELSE
          [dc |-> [Command |-> lp,
                   Dockerfile |-> DEF_DOCKERFILE_NAME,
                   RegistryHost |-> DEF_REGISTRY_HOST,
                   ParentContainerId |-> r.id,
                   IsInContainer |-> (r.err = NilErr),
                   ShowOutput |-> FALSE],
           err |-> NilErr]

NewClient(lp, f) ==
  IF lp = "" THEN [dc |-> NoClient, err |-> "executable file not found in $PATH"]
  ELSE LET r == getParentContainerId(f)
       IN [dc |-> [Command |-> lp,
                   Dockerfile |-> DEF_DOCKERFILE_NAME,
                   RegistryHost |-> DEF_REGISTRY_HOST,
                   ParentContainerId |-> r.id,
                   IsInContainer |-> (r.err = NilErr),
                   ShowOutput |-> FALSE],
           err |-> NilErr]

(* ------------------------------ runCommand ---------------------------- *)
StartOutcomes == {"ok", "stdoutPipeErr", "stderrPipeErr", "startErr"}

\* runCommandStart starting the goroutines before it looks at the start error
runCommandStart_GoFirst(show, workdir, command, args, st, sc) ==
  /\ command_string' = Join(<<command>> \o args, " ")
  /\ output' = ""
  /\ showOutput' = show
  /\ IF st = "ok"
       THEN /\ spawned' = [argv |-> <<command>> \o args, dir |-> workdir]
            /\ proc' = "running"
            /\ script' = Writes(sc)
            /\ rd' = "scan"
            /\ wd' = "new"
            /\ ctl' = "loop"
            /\ err' = NilErr
       ELSE /\ err' = st
            /\ ctl' = "done"
            /\ rd' = "scan"
            /\ wd' = "new"
            /\ UNCHANGED <<spawned, proc, script>>
  /\ UNCHANGED <<exitOutcome, so, se, pipesClosed, t, out, outClosed, echoed, dc, dcErr,
                 probes, crashed, read, sent, atSignal>>


\* runCommand up to the point where the goroutines are started
runCommandStart(show, workdir, command, args, st, sc) ==
  /\ command_string' = Join(<<command>> \o args, " ")
  /\ output' = ""
  /\ showOutput' = show
  /\ IF st = "ok"
       THEN /\ spawned' = [argv |-> <<command>> \o args, dir |-> workdir]
            /\ proc' = "running"
            /\ script' = Writes(sc)
            /\ rd' = "scan"
            /\ wd' = "new"
            /\ ctl' = "loop"
            /\ err' = NilErr
       ELSE /\ err' = st
            /\ ctl' = "done"
            /\ UNCHANGED <<spawned, proc, script, rd, wd>>
  /\ UNCHANGED <<exitOutcome, so, se, pipesClosed, t, out, outClosed, echoed, dc, dcErr,
                 probes, crashed, read, sent, atSignal>>


\* the volume and env var lists of a call: <<>>, <<"x1">>, <<"x1", "x2">>, ...
ArgNames == <<"1", "2", "3", "4">>
ArgLists(x) == {[i \in 1..k |-> x \o ArgNames[i]] : k \in 0..MaxArgs}

\* the extra arguments (args ...string) and the container commands tried
ExtraArgs == {<<>>, <<"--a1", "--a2">>}
Commands == {<<>>, <<"c1", "c2">>}

\* the scripts a call is tried with: every script on the call without
\* optional arguments, the silent process on the others
ScriptsOf(optional) == IF optional = <<>> THEN Scripts ELSE {<<>>}

\* DockerClient.Build
Build(imgName, buildContextDir, args, st, sc) ==
  /\ ctl = "idle"
  /\ LET cmd_args == <<"build", "-f", d.Dockerfile, "-t", imgName>> \o args \o <<".">>
     IN runCommandStart(d.ShowOutput, buildContextDir, d.Command, cmd_args, st, sc)
  /\ call' = [op |-> "Build", imgName |-> imgName, dir |-> buildContextDir,
              args |-> args]
  /\ UNCHANGED <<d, fres, fspawn>>

\* getwd: the working directory, or "" when os.Getwd fails
Getwds == {"", "/cwd"}

\* Run adding the env vars before the volumes
Run_EnvFirst(imgName, command, volumes, envVars, args, cwd, st, sc) ==
  /\ ctl = "idle"
  /\ LET cmd_args == <<"run">> \o FlagEach("-e", envVars) \o FlagEach("-v", volumes)
                      \o args \o <<imgName>> \o command
     IN IF cwd = ""
          THEN /\ command_string' = ""
               /\ output' = ""
               /\ err' = "Unable to determine working directory"
               /\ ctl' = "done"
               /\ UNCHANGED <<spawned, showOutput, script, proc, exitOutcome, so, se,
                              pipesClosed, rd, t, out, outClosed, echoed, wd, dc, dcErr,
                              probes, crashed, read, sent, atSignal>>
          ELSE runCommandStart(d.ShowOutput, cwd, d.Command, cmd_args, st, sc)
  /\ call' = [op |-> "Run", imgName |-> imgName, command |-> command,
              volumes |-> volumes, envVars |-> envVars, args |-> args, cwd |-> cwd]
  /\ UNCHANGED <<d, fres, fspawn>>

\* DockerClient.Run
Run(imgName, command, volumes, envVars, args, cwd, st, sc) ==
  /\ ctl = "idle"
  /\ LET cmd_args == <<"run">> \o FlagEach("-v", volumes) \o FlagEach("-e", envVars)
                      \o args \o <<imgName>> \o command
     IN IF cwd = ""
          THEN /\ command_string' = ""
               /\ output' = ""
               /\ err' = "Unable to determine working directory"
               /\ ctl' = "done"
               /\ UNCHANGED <<spawned, showOutput, script, proc, exitOutcome, so, se,
                              pipesClosed, rd, t, out, outClosed, echoed, wd, dc, dcErr,
                              probes, crashed, read, sent, atSignal>>
          ELSE runCommandStart(d.ShowOutput, cwd, d.Command, cmd_args, st, sc)
  /\ call' = [op |-> "Run", imgName |-> imgName, command |-> command,
              volumes |-> volumes, envVars |-> envVars, args |-> args, cwd |-> cwd]
  /\ UNCHANGED <<d, fres, fspawn>>

(* the external process *)
PipeOf(fd) == IF fd = 1 THEN so ELSE se

\* the process writes its next line; it blocks while that pipe is full
ProcWrite ==
  /\ proc = "running"
  /\ script # <<>>
  /\ Len(PipeOf(Head(script).fd)) < PipeCap
  /\ IF Head(script).fd = 1
       THEN so' = Append(so, Head(script).line) /\ UNCHANGED se
       ELSE se' = Append(se, Head(script).line) /\ UNCHANGED so
  /\ script' = Tail(script)
  /\ UNCHANGED <<d, ctl, command_string, output, err, spawned, showOutput, proc,
                 exitOutcome, pipesClosed, rd, t, out, outClosed, echoed, wd, dc, dcErr,
                 probes, crashed, read, sent, atSignal, fres, fspawn, call>>

\* the process closes stdout and stderr once it has written everything
ProcClose ==
  /\ proc = "running"
  /\ script = <<>>
  /\ proc' = "closed"
  /\ pipesClosed' = TRUE
  /\ UNCHANGED <<d, ctl, command_string, output, err, spawned, showOutput, script,
                 exitOutcome, so, se, rd, t, out, outClosed, echoed, wd, dc, dcErr,
                 probes, crashed, read, sent, atSignal, fres, fspawn, call>>

ExitOutcomes == {"exit0", "exit1", "waitErr"}

\* the process exits; ex is what cmd.Wait is going to find
ProcExit(ex) ==
  /\ proc = "closed"
  /\ proc' = "exited"
  /\ exitOutcome' = ex
  /\ UNCHANGED <<d, ctl, command_string, output, err, spawned, showOutput, script,
                 so, se, pipesClosed, rd, t, out, outClosed, echoed, wd, dc, dcErr,
                 probes, crashed, read, sent, atSignal, fres, fspawn, call>>

(* the reader goroutine *)
\* scanner.Scan() returns true: io.MultiReader(so, se) serves stdout until
\* its end of file and only then stderr
ReaderScan ==
  /\ ~crashed
  /\ rd = "scan"
  /\ IF so # <<>>
       THEN /\ t' = Head(so) /\ so' = Tail(so) /\ UNCHANGED se
       ELSE /\ pipesClosed
            /\ se # <<>>
            /\ t' = Head(se) /\ se' = Tail(se) /\ UNCHANGED so
  /\ read' = Append(read, t')
  /\ rd' = "send"
  /\ UNCHANGED <<d, ctl, command_string, output, err, spawned, showOutput, script,
                 proc, exitOutcome, pipesClosed, out, outClosed, echoed, wd, dc, dcErr,
                 probes, crashed, sent, atSignal, fres, fspawn, call>>

\* out<- t, then the test of showOutput
ReaderSend ==
  /\ ~crashed
  /\ rd = "send"
  /\ Len(out) < OutCap
  /\ out' = Append(out, t)
  /\ sent' = Append(sent, t)
  /\ rd' = IF showOutput THEN "echo" ELSE "scan"
  /\ UNCHANGED <<d, ctl, command_string, output, err, spawned, showOutput, script,
                 proc, exitOutcome, so, se, pipesClosed, t, outClosed, echoed, wd,
                 dc, dcErr, probes, crashed, read, atSignal, fres, fspawn, call>>

\* ReaderEcho printing the line twice
ReaderEcho_Twice ==
  /\ ~crashed
  /\ rd = "echo"
  /\ echoed' = Append(Append(echoed, t), t)
  /\ rd' = "scan"
  /\ UNCHANGED <<d, ctl, command_string, output, err, spawned, showOutput, script,
                 proc, exitOutcome, so, se, pipesClosed, t, out, outClosed, wd, dc, dcErr,
                 probes, crashed, read, sent, atSignal, fres, fspawn, call>>

\* fmt.Println(t)
ReaderEcho ==
  /\ ~crashed
  /\ rd = "echo"
  /\ echoed' = Append(echoed, t)
  /\ rd' = "scan"
  /\ UNCHANGED <<d, ctl, command_string, output, err, spawned, showOutput, script,
                 proc, exitOutcome, so, se, pipesClosed, t, out, outClosed, wd, dc, dcErr,
                 probes, crashed, read, sent, atSignal, fres, fspawn, call>>

\* scanner.Scan() returns false at the end of both streams; close(out)
ReaderClose ==
  /\ ~crashed
  /\ rd = "scan"
  /\ so = <<>> /\ se = <<>> /\ pipesClosed
  /\ outClosed' = TRUE
  /\ rd' = "done"
  /\ UNCHANGED <<d, ctl, command_string, output, err, spawned, showOutput, script,
                 proc, exitOutcome, so, se, pipesClosed, t, out, echoed, wd, dc, dcErr,
                 probes, crashed, read, sent, atSignal, fres, fspawn, call>>

(* the watchdog goroutine *)
\* WdNewClient going on to the probes without the failure signal
WdNewClient_NoSignal(lp, f) ==
  /\ ~crashed
  /\ wd = "new"
  /\ dc' = NewClient(lp, f).dc
  /\ dcErr' = NewClient(lp, f).err
  /\ wd' = "probe"
  /\ UNCHANGED <<d, ctl, command_string, output, err, spawned, showOutput, script,
                 proc, exitOutcome, so, se, pipesClosed, rd, t, out, outClosed,
                 echoed, probes, crashed, read, sent, atSignal, fres, fspawn, call>>

\* dc, dcErr, err := NewClient()
WdNewClient(lp, f) ==
  /\ ~crashed
  /\ wd = "new"
  /\ dc' = NewClient(lp, f).dc
  /\ dcErr' = NewClient(lp, f).err
  /\ wd' = IF dcErr' # NilErr THEN "signalNoClient" ELSE "probe"
  /\ UNCHANGED <<d, ctl, command_string, output, err, spawned, showOutput, script,
                 proc, exitOutcome, so, se, pipesClosed, rd, t, out, outClosed,
                 echoed, probes, crashed, read, sent, atSignal, fres, fspawn, call>>

\* DockerClient.IsConnected: the process it runs
IsConnected(c) == <<c.Command, "info">>

\* if (! dc.IsConnected()): on the nil client the receiver is dereferenced
\* and the goroutine panics; otherwise ok is whether `info` exited zero
WdProbe(ok) ==
  /\ ~crashed
  /\ wd = "probe"
  /\ IF dc = NoClient
       THEN /\ crashed' = TRUE
            /\ wd' = "panicked"
            /\ UNCHANGED probes
       ELSE /\ Len(probes) < MaxProbes
            /\ probes' = Append(probes, [argv |-> IsConnected(dc), ok |-> ok])
            /\ wd' = IF ok THEN "sleep" ELSE "signal"
            /\ UNCHANGED crashed
  /\ UNCHANGED <<d, ctl, command_string, output, err, spawned, showOutput, script,
                 proc, exitOutcome, so, se, pipesClosed, rd, t, out, outClosed,
                 echoed, dc, dcErr, read, sent, atSignal, fres, fspawn, call>>

\* time.Sleep(5 * time.Second)
WdSleep ==
  /\ ~crashed
  /\ wd = "sleep"
  /\ wd' = "probe"
  /\ UNCHANGED <<d, ctl, command_string, output, err, spawned, showOutput, script,
                 proc, exitOutcome, so, se, pipesClosed, rd, t, out, outClosed,
                 echoed, dc, dcErr, probes, crashed, read, sent, atSignal,
                 fres, fspawn, call>>

(* the select loop of runCommand *)
\* CtlRecvLine putting the new line in front of the output
CtlRecvLine_Prepend ==
  /\ ~crashed
  /\ ctl = "loop"
  /\ out # <<>>
  /\ output' = Head(out) \o output
  /\ out' = Tail(out)
  /\ UNCHANGED <<d, ctl, command_string, err, spawned, showOutput, script, proc,
                 exitOutcome, so, se, pipesClosed, rd, t, outClosed, echoed, wd,
                 dc, dcErr, probes, crashed, read, sent, atSignal, fres, fspawn, call>>

\* CtlRecvLine putting the newline back after each line
CtlRecvLine_Newline ==
  /\ ~crashed
  /\ ctl = "loop"
  /\ out # <<>>
  /\ output' = output \o Head(out) \o "\n"
  /\ out' = Tail(out)
  /\ UNCHANGED <<d, ctl, command_string, err, spawned, showOutput, script, proc,
                 exitOutcome, so, se, pipesClosed, rd, t, outClosed, echoed, wd,
                 dc, dcErr, probes, crashed, read, sent, atSignal, fres, fspawn, call>>

\* case o, chOpen := <-out with a line in the buffer
CtlRecvLine ==
  /\ ~crashed
  /\ ctl = "loop"
  /\ out # <<>>
  /\ output' = output \o Head(out)
  /\ out' = Tail(out)
  /\ UNCHANGED <<d, ctl, command_string, err, spawned, showOutput, script, proc,
                 exitOutcome, so, se, pipesClosed, rd, t, outClosed, echoed, wd,
                 dc, dcErr, probes, crashed, read, sent, atSignal, fres, fspawn, call>>

\* case o, chOpen := <-out on the closed, drained channel: break Loop
CtlRecvClosed ==
  /\ ~crashed
  /\ ctl = "loop"
  /\ out = <<>> /\ outClosed
  /\ output' = output \o ""
  /\ ctl' = "wait"
  /\ UNCHANGED <<d, command_string, err, spawned, showOutput, script, proc,
                 exitOutcome, so, se, pipesClosed, rd, t, out, outClosed, echoed,
                 wd, dc, dcErr, probes, crashed, read, sent, atSignal, fres,
                 fspawn, call>>

\* CtlRecvTimeout returning the empty output, as the other error returns do
CtlRecvTimeout_NoOutput ==
  /\ ~crashed
  /\ ctl = "loop"
  /\ wd \in {"signalNoClient", "signal"}
  /\ wd' = IF wd = "signal" THEN "done" ELSE "probe"
  /\ err' = LostConnection
  /\ output' = ""
  /\ ctl' = "abort"
  /\ atSignal' = [sent |-> sent, buffered |-> out, proc |-> proc]
  /\ UNCHANGED <<d, command_string, spawned, showOutput, script, proc,
                 exitOutcome, so, se, pipesClosed, rd, t, out, outClosed, echoed,
                 dc, dcErr, probes, crashed, read, sent, fres, fspawn, call>>

\* CtlRecvTimeout returning only once the process has exited
CtlRecvTimeout_WaitProc ==
  /\ ~crashed
  /\ ctl = "loop"
  /\ proc = "exited"
  /\ wd \in {"signalNoClient", "signal"}
  /\ wd' = IF wd = "signal" THEN "done" ELSE "probe"
  /\ err' = LostConnection
  /\ ctl' = "abort"
  /\ atSignal' = [sent |-> sent, buffered |-> out, proc |-> proc]
  /\ UNCHANGED <<d, command_string, output, spawned, showOutput, script, proc,
                 exitOutcome, so, se, pipesClosed, rd, t, out, outClosed, echoed,
                 dc, dcErr, probes, crashed, read, sent, fres, fspawn, call>>

\* case to, _ := <-timeout: timeout is unbuffered, so the receive is the
\* watchdog's send; the watchdog returns after the send in its loop and
\* goes on to the loop after the send that follows a failed NewClient
CtlRecvTimeout ==
  /\ ~crashed
  /\ ctl = "loop"
  /\ wd \in {"signalNoClient", "signal"}
  /\ wd' = IF wd = "signal" THEN "done" ELSE "probe"
  /\ err' = LostConnection
  /\ ctl' = "abort"
  /\ atSignal' = [sent |-> sent, buffered |-> out, proc |-> proc]
  /\ UNCHANGED <<d, command_string, output, spawned, showOutput, script, proc,
                 exitOutcome, so, se, pipesClosed, rd, t, out, outClosed, echoed,
                 dc, dcErr, probes, crashed, read, sent, fres, fspawn, call>>

\* CtlReturn killing the process before it returns
CtlReturn_Kill ==
  /\ ~crashed
  /\ ctl = "abort"
  /\ ctl' = "done"
  /\ proc' = "exited"
  /\ exitOutcome' = "killed"
  /\ UNCHANGED <<d, command_string, output, err, spawned, showOutput, script,
                 so, se, pipesClosed, rd, t, out, outClosed, echoed,
                 wd, dc, dcErr, probes, crashed, read, sent, atSignal, fres,
                 fspawn, call>>

\* the return of the timeout case
CtlReturn ==
  /\ ~crashed
  /\ ctl = "abort"
  /\ ctl' = "done"
  /\ UNCHANGED <<d, command_string, output, err, spawned, showOutput, script, proc,
                 exitOutcome, so, se, pipesClosed, rd, t, out, outClosed, echoed,
                 wd, dc, dcErr, probes, crashed, read, sent, atSignal, fres,
                 fspawn, call>>

\* CtlWait returning the empty output with the error of cmd.Wait
CtlWait_DropOutput ==
  /\ ~crashed
  /\ ctl = "wait"
  /\ proc = "exited"
  /\ err' = IF exitOutcome = "exit0" THEN NilErr ELSE exitOutcome
  /\ ctl' = "done"
  /\ output' = IF exitOutcome = "exit0" THEN output ELSE ""
  /\ UNCHANGED <<d, command_string, spawned, showOutput, script, proc,
                 exitOutcome, so, se, pipesClosed, rd, t, out, outClosed, echoed,
                 wd, dc, dcErr, probes, crashed, read, sent, atSignal, fres,
                 fspawn, call>>

\* err = cmd.Wait(); return
CtlWait ==
  /\ ~crashed
  /\ ctl = "wait"
  /\ proc = "exited"
  /\ err' = IF exitOutcome = "exit0" THEN NilErr ELSE exitOutcome
  /\ ctl' = "done"
  /\ UNCHANGED <<d, command_string, output, spawned, showOutput, script, proc,
                 exitOutcome, so, se, pipesClosed, rd, t, out, outClosed, echoed,
                 wd, dc, dcErr, probes, crashed, read, sent, atSignal, fres,
                 fspawn, call>>

(* ------------------------------ the runner ---------------------------- *)
\* the metadata file of the host the runs are made on
HostCgroup == [open |-> TRUE, id |-> "", scanErr |-> FALSE]

RunnerIdle ==
  /\ ctl = "idle"
  /\ command_string = ""
  /\ output = ""
  /\ err = NilErr
  /\ spawned = <<>>
  /\ showOutput = FALSE
  /\ script = <<>>
  /\ proc = "none"
  /\ exitOutcome = ""
  /\ so = <<>>
  /\ se = <<>>
  /\ pipesClosed = FALSE
  /\ rd = "idle"
  /\ t = ""
  /\ out = <<>>
  /\ outClosed = FALSE
  /\ echoed = <<>>
  /\ wd = "idle"
  /\ dc = NoClient
  /\ dcErr = NilErr
  /\ probes = <<>>
  /\ crashed = FALSE
  /\ read = <<>>
  /\ sent = <<>>
  /\ atSignal = <<>>
  /\ call = <<>>

\* the executables a caller runs: the one NewClient found, or its own
Executables == {"/usr/bin/docker", "/opt/bin/docker"}

\* a client as NewClient returns it, ShowOutput and Command set by the
\* caller or not
Init ==
  /\ d \in {[NewClient("/usr/bin/docker", HostCgroup).dc
               EXCEPT !.ShowOutput = s, !.Command = c] :
              s \in BOOLEAN, c \in Executables}
  /\ RunnerIdle
  /\ fres = <<>>
  /\ fspawn = <<>>

Next ==
  \/ /\ ctl = "idle"
     /\ \E a \in ExtraArgs : \E st \in StartOutcomes, sc \in ScriptsOf(a) :
          Build("img", "/ctx", a, st, sc)
  \/ /\ ctl = "idle"
     /\ \E c \in Commands, v \in ArgLists("v"), e \in ArgLists("e"), a \in ExtraArgs :
          \E cwd \in Getwds, st \in StartOutcomes, sc \in ScriptsOf(c \o v \o e \o a) :
            Run("img", c, v, e, a, cwd, st, sc)
  \/ ProcWrite
  \/ ProcClose
  \/ \E ex \in ExitOutcomes : ProcExit(ex)
  \/ ReaderScan
  \/ ReaderSend
  \/ ReaderEcho
  \/ ReaderClose
  \/ \E lp \in LookPaths : WdNewClient(lp, HostCgroup)
  \/ \E ok \in BOOLEAN : WdProbe(ok)
  \/ WdSleep
  \/ CtlRecvLine
  \/ CtlRecvClosed
  \/ CtlRecvTimeout
  \/ CtlReturn
  \/ CtlWait

Spec == Init /\ [][Next]_vars

\* the Go scheduler runs every goroutine that can take a step; nothing is
\* assumed of the external process, which may stay silent or never exit
GoFairness ==
  /\ WF_vars(ReaderScan) /\ WF_vars(ReaderSend)
  /\ WF_vars(ReaderEcho) /\ WF_vars(ReaderClose)
  /\ WF_vars(\E lp \in LookPaths : WdNewClient(lp, HostCgroup))
  /\ WF_vars(\E ok \in BOOLEAN : WdProbe(ok)) /\ WF_vars(WdSleep)
  /\ WF_vars(CtlRecvLine) /\ WF_vars(CtlRecvClosed) /\ WF_vars(CtlRecvTimeout)
  /\ WF_vars(CtlReturn) /\ WF_vars(CtlWait)

FairSpec == Spec /\ GoFairness

\* a process that writes whenever its pipe has room, closes its streams
\* and exits
ProcFairness ==
  /\ WF_vars(ProcWrite) /\ WF_vars(ProcClose)
  /\ WF_vars(\E ex \in ExitOutcomes : ProcExit(ex))

FairExitSpec == Spec /\ GoFairness /\ ProcFairness

(* ------------------------- properties of the runner ------------------- *)
StartErrs == StartOutcomes \ {"ok"}
WaitErrs == ExitOutcomes \ {"exit0"}
AllProbesOk == \A i \in DOMAIN probes : probes[i].ok

\* the argument list the documentation gives for build, by position
DocBuildArgs(c) ==
  [i \in 1..(5 + Len(c.args) + 1) |->
     IF i = 1 THEN "build"
     ELSE IF i = 2 THEN "-f"
     ELSE IF i = 3 THEN d.Dockerfile
     ELSE IF i = 4 THEN "-t"
     ELSE IF i = 5 THEN c.imgName
     ELSE IF i <= 5 + Len(c.args) THEN c.args[i - 5]
     ELSE "."]

\* the argument list the documentation gives for run, by position
DocRunArgs(c) ==
  LET nv == 2 * Len(c.volumes)
      ne == 2 * Len(c.envVars)
      na == Len(c.args)
  IN [i \in 1..(1 + nv + ne + na + 1 + Len(c.command)) |->
        IF i = 1 THEN "run"
        ELSE IF i <= 1 + nv
          THEN (IF i % 2 = 0 THEN "-v" ELSE c.volumes[(i - 1) \div 2])
        ELSE IF i <= 1 + nv + ne
          THEN (IF (i - nv) % 2 = 0 THEN "-e" ELSE c.envVars[(i - nv - 1) \div 2])
        ELSE IF i <= 1 + nv + ne + na THEN c.args[i - 1 - nv - ne]
        ELSE IF i = 1 + nv + ne + na + 1 THEN c.imgName
        ELSE c.command[i - 2 - nv - ne - na]]

DocArgs == IF call.op = "Build" THEN DocBuildArgs(call) ELSE DocRunArgs(call)

\* C1 as stated: whenever runCommand has returned from a run whose probes
\* all reported reachable and whose process exited with status zero, the
\* error is nil and the output is the concatenation, without separator, of
\* the lines the reader read.
C1_AsStated ==
  (ctl = "done" /\ spawned # <<>> /\ AllProbesOk
     /\ proc = "exited" /\ exitOutcome = "exit0")
  => (err = NilErr /\ output = Concat(read))

\* C1 amended: the same, for the runs in which the construction of the
\* watchdog's client did not fail.
C1_NilAndAllLines ==
  (ctl = "done" /\ spawned # <<>> /\ dcErr = NilErr /\ AllProbesOk
     /\ proc = "exited" /\ exitOutcome = "exit0")
  => (err = NilErr /\ output = Concat(read))

C1_Witness ==
  /\ ctl = "done" /\ spawned # <<>> /\ dcErr = NilErr /\ dc # NoClient
  /\ Len(probes) >= 1 /\ AllProbesOk
  /\ proc = "exited" /\ exitOutcome = "exit0"
  /\ Len(read) = 2 /\ err = NilErr

\* C2 as stated: whenever the loop took the signal of a watchdog whose
\* probe found the daemon unreachable, before the process finished, the error is "Lost connection to Docker daemon" and
\* the output is the concatenation of exactly the lines the reader had put
\* on the channel before the signal.
C2_AsStated ==
  (ctl \in {"abort", "done"} /\ atSignal # <<>> /\ atSignal.proc # "exited"
     /\ ~AllProbesOk)
  => (err = LostConnection /\ output = Concat(atSignal.sent))

\* C2 amended: the output is the concatenation of the lines the reader had
\* put on the channel before the signal, less the line (at most one) that
\* was still in the channel's buffer when the signal was taken; no later
\* line is included.
C2_LostAndReceivedLines ==
  (ctl \in {"abort", "done"} /\ atSignal # <<>> /\ atSignal.proc # "exited")
  => /\ err = LostConnection
     /\ Len(atSignal.buffered) <= 1
     /\ output = Concat(SubSeq(atSignal.sent, 1,
                               Len(atSignal.sent) - Len(atSignal.buffered)))

C2_Witness ==
  /\ ctl = "done" /\ atSignal # <<>> /\ atSignal.proc # "exited"
  /\ Len(atSignal.sent) = 2 /\ Len(atSignal.buffered) = 1
  /\ output = atSignal.sent[1]

\* C4: once runCommand has returned a pipe or start error, it has returned
\* the invocation string and an empty output, and neither the reader nor
\* the watchdog is ever started, no probe is issued and no process runs.
C4_StartFailure ==
  (ctl = "done" /\ err \in StartErrs)
  => /\ command_string = Join(<<d.Command>> \o DocArgs, " ")
     /\ output = ""
     /\ rd = "idle" /\ wd = "idle" /\ probes = <<>>
     /\ proc = "none" /\ spawned = <<>>

C4_Witness == ctl = "done" /\ err = "startErr" /\ call.op = "Build"

\* C5: whenever runCommand has returned through the completion of the
\* reader with the error of cmd.Wait, the output is the concatenation of
\* all the lines the reader read, and the reader has finished.
C5_WaitErrorFullOutput ==
  (ctl = "done" /\ proc = "exited" /\ exitOutcome \in WaitErrs /\ atSignal = <<>>)
  => (err = exitOutcome /\ err # NilErr /\ rd = "done" /\ output = Concat(read))

C5_Witness ==
  /\ ctl = "done" /\ err = "exit1" /\ Len(read) = 2 /\ output # ""

C9_AsStated ==
  ctl # "idle"
  => /\ command_string = Join(<<d.Command>> \o DocArgs, " ")
     /\ spawned # <<>> => spawned.argv = <<d.Command>> \o DocArgs

\* C9 amended: the same for every Build, and for every Run whose working
\* directory could be determined; a Run whose working directory could not
\* be determined returns the empty invocation string and spawns nothing.
C9_InvocationString ==
  ctl # "idle"
  => IF call.op = "Run" /\ call.cwd = ""
       THEN command_string = "" /\ spawned = <<>>
       ELSE /\ command_string = Join(<<d.Command>> \o DocArgs, " ")
            /\ spawned # <<>> => spawned.argv = <<d.Command>> \o DocArgs

C9_Witness ==
  /\ ctl # "idle" /\ call.op = "Run" /\ spawned # <<>>
  /\ Len(call.volumes) = 2 /\ Len(call.envVars) = 2
  /\ Len(call.args) = 2 /\ Len(call.command) = 2
  /\ command_string
       = "/usr/bin/docker run -v v1 -v v2 -e e1 -e e2 --a1 --a2 img c1 c2"
\* position of a line in the order the process wrote the lines
WriteIndex(l) ==
  CHOOSE i \in 1..Len(StdoutText) : StdoutText[i] = l \/ StderrText[i] = l

\* C11: once runCommand has returned through the completion of the
\* reader, the lines of its output are in the order the process wrote
\* them, a stderr line before the stdout line written after it.
C11_AsStated ==
  (ctl = "done" /\ spawned # <<>> /\ atSignal = <<>>)
  => /\ output = Concat(read)
     /\ \A i, j \in DOMAIN read :
          i < j => WriteIndex(read[i]) < WriteIndex(read[j])

IsPrefix(p, q) == Len(p) <= Len(q) /\ SubSeq(q, 1, Len(p)) = p

\* C12: in every state the output is the concatenation of a prefix of the
\* lines read, namely of the lines put on the channel less the buffered
\* one; the output changes only by the loop appending the line at the head
\* of the channel, and it never changes once the loop is left.
C12_OutputIsPrefix ==
  /\ [](/\ IsPrefix(sent, read)
        /\ Len(out) <= Len(sent)
        /\ output = Concat(SubSeq(read, 1, Len(sent) - Len(out))))
  /\ [][(output' # output)
          => (ctl = "loop" /\ ctl' = "loop" /\ out # <<>>
                /\ output' = output \o Head(out) /\ out' = Tail(out))]_vars
  /\ [][(ctl \in {"abort", "wait", "done"}) => (output' = output)]_vars

C12_Witness ==
  /\ ctl = "done" /\ err = LostConnection /\ output = "a"
  /\ Len(read) = 2 /\ rd = "done"

\* C13 as stated: whenever a probe has reported unreachable and the
\* process has not exited, runCommand eventually returns the daemon-loss
\* error, whether or not the process ever exits.
C13_AsStated ==
  (~AllProbesOk /\ proc # "exited") ~> (ctl = "done" /\ err = LostConnection)

\* C13 amended: it eventually returns the daemon-loss error, whether or not
\* the process ever exits, unless the loop is left through the closed
\* channel first; it then waits for the process.
C13_LossOrCompletion ==
  (~AllProbesOk /\ proc # "exited")
    ~> \/ ctl = "done" /\ err = LostConnection
       \/ ctl = "wait"
       \/ ctl = "done" /\ atSignal = <<>>

C13_Witness ==
  /\ ctl = "done" /\ err = LostConnection /\ ~AllProbesOk
  /\ proc = "closed" /\ rd = "done"

\* the state of the process and of the reader goroutine
procAndReader == <<proc, exitOutcome, script, so, se, pipesClosed,
                   rd, t, out, outClosed, echoed, read, sent>>

\* C14: taking the watchdog's signal and returning from it change nothing
\* of the process or of the reader, and after that return a reader that
\* waits to send on the full channel is never served.
C14_LossLeavesProcessAndReader ==
  /\ [][((ctl = "loop" /\ ctl' = "abort") \/ (ctl = "abort" /\ ctl' = "done"))
          => UNCHANGED procAndReader]_vars
  /\ [][(ctl \in {"abort", "done"} /\ rd = "send" /\ Len(out) = OutCap)
          => (rd' = "send" /\ out' = out)]_vars

C14_Witness ==
  /\ ctl = "done" /\ err = LostConnection
  /\ rd = "send" /\ Len(out) = OutCap /\ proc = "running"

\* C15: every probe has run `info` on the executable the call runs.
C15_AsStated ==
  \A i \in DOMAIN probes : probes[i].argv = <<spawned.argv[1], "info">>

\* C16: when runCommand has left the loop through the completion of the
\* reader with showOutput set, the lines of the output have been echoed
\* once each, in the order of the output; with showOutput unset nothing
\* is ever echoed.
C16_EchoedBeforeReturn ==
  /\ (ctl \in {"wait", "done"} /\ spawned # <<>> /\ atSignal = <<>> /\ showOutput)
       => (output = Concat(echoed) /\ echoed = read)
  /\ ~showOutput => echoed = <<>>
  /\ IsPrefix(echoed, sent)

C16_Witness ==
  /\ ctl = "done" /\ atSignal = <<>> /\ showOutput
  /\ Len(echoed) = 2 /\ output = Concat(echoed)

\* C17: every call whose process was started eventually returns, unless
\* the program has panicked, when the process writes its lines, closes its
\* streams and exits.
C17_AsStated == (spawned # <<>>) ~> (ctl = "done" \/ crashed)

\* C18: the watchdog is never at dc.IsConnected() with the nil client of a
\* failed NewClient, and the program never panics.
C18_AsStated ==
  /\ ~(wd = "probe" /\ dcErr # NilErr)
  /\ ~crashed

\* C19: after a return through the completion of the reader the watchdog
\* is never left sending a failure signal that the loop, which is gone,
\* cannot receive.
C19_AsStated ==
  ~(ctl = "done" /\ spawned # <<>> /\ atSignal = <<>> /\ wd = "signal")

(* ------------------------- the other operations ----------------------- *)
\* strings.Count(s, c) for a one-character c
Count(s, c) == Cardinality({i \in DOMAIN s : s[i] = c})

RECURSIVE TrimLeft(_, _)
TrimLeft(s, cutset) ==
  IF s # <<>> /\ Head(s) \in cutset THEN TrimLeft(Tail(s), cutset) ELSE s

RECURSIVE TrimRight(_, _)
TrimRight(s, cutset) ==
  IF s # <<>> /\ s[Len(s)] \in cutset
    THEN TrimRight(SubSeq(s, 1, Len(s) - 1), cutset) ELSE s

\* strings.Trim
Trim(s, cutset) == TrimRight(TrimLeft(s, cutset), cutset)

\* what `images -q` can print
QueryChars == {"a", " ", "\n"}
QueryResults == SeqsUpTo(QueryChars, MaxQueryLen)
CmdErrs == {NilErr, "exit status 1"}
\* what cmd.Output returns for the query: the text printed, or an error
QueryOutcomes == {[o |-> o, err |-> NilErr] : o \in QueryResults}
                   \cup {[o |-> <<>>, err |-> "exit status 1"]}
RegistryHosts == {DEF_REGISTRY_HOST, "myregistry.com"}

\* DockerClient.getImageID on the query's result o and error qerr
getImageID(o, qerr) ==
  IF qerr # NilErr THEN [imgID |-> "", err |-> qerr]
  ELSE IF Count(o, "\n") > 1
    THEN [imgID |-> "", err |-> "Multiple IDs returned for image"]
  ELSE [imgID |-> Concat(Trim(o, {"\n", " "})), err |-> NilErr]

\* the caller sets up a client
FNewClient(lp, f) ==
  /\ d' = NewClient(lp, f).dc
  /\ fres' = [op |-> "NewClient", lp |-> lp, file |-> f, err |-> NewClient(lp, f).err]
  /\ fspawn' = <<>>
  /\ UNCHANGED runVars

\* the caller sets the RegistryHost field
SetRegistryHost(h) ==
  /\ d # NoClient
  /\ d' = [d EXCEPT !.RegistryHost = h]
  /\ fres' = [op |-> "SetRegistryHost"]
  /\ fspawn' = <<>>
  /\ UNCHANGED runVars

\* DockerClient.IsConnected
FIsConnected(ok) ==
  /\ d # NoClient
  /\ fspawn' = <<IsConnected(d)>>
  /\ fres' = [op |-> "IsConnected", connected |-> ok]
  /\ UNCHANGED <<d, runVars>>

\* DockerClient.Version
Version ==
  /\ d # NoClient
  /\ fspawn' = <<>>
  /\ fres' = [op |-> "Version", version |-> ""]
  /\ UNCHANGED <<d, runVars>>

\* DockerClient.Push; o and e are what cmd.CombinedOutput returns
Push(imgName, o, e) ==
  /\ d # NoClient
  /\ LET name == IF d.RegistryHost # DEF_REGISTRY_HOST
                    THEN d.RegistryHost \o "/" \o imgName ELSE imgName
     IN fspawn' = << <<d.Command, "push", name>> >>
  /\ fres' = [op |-> "Push", imgName |-> imgName, output |-> o, err |-> e]
  /\ UNCHANGED <<d, runVars>>

\* Pull passing the image name on without the registry host
Pull_NoPrefix(imgName, o, e) ==
  /\ d # NoClient
  /\ LET name == IF d.RegistryHost # DEF_REGISTRY_HOST
                    THEN d.RegistryHost \o "/" \o imgName ELSE imgName
     IN fspawn' = << <<d.Command, "pull", imgName>> >>
  /\ fres' = [op |-> "Pull", imgName |-> imgName, output |-> o, err |-> e]
  /\ UNCHANGED <<d, runVars>>

\* DockerClient.Pull
Pull(imgName, o, e) ==
  /\ d # NoClient
  /\ LET name == IF d.RegistryHost # DEF_REGISTRY_HOST
                    THEN d.RegistryHost \o "/" \o imgName ELSE imgName
     IN fspawn' = << <<d.Command, "pull", name>> >>
  /\ fres' = [op |-> "Pull", imgName |-> imgName, output |-> o, err |-> e]
  /\ UNCHANGED <<d, runVars>>

\* a call of DockerClient.getImageID
GetImageID(imgName, o, qerr) ==
  /\ d # NoClient
  /\ fspawn' = << <<d.Command, "images", "-q", imgName>> >>
  /\ fres' = [op |-> "getImageID", imgName |-> imgName, query |-> o, qerr |-> qerr,
              imgID |-> getImageID(o, qerr).imgID, err |-> getImageID(o, qerr).err]
  /\ UNCHANGED <<d, runVars>>

\* DockerClient.Tag; e is the error of the tag command
Tag(imgName, newTag, o, qerr, e) ==
  /\ d # NoClient
  /\ LET r == getImageID(o, qerr)
         q == <<d.Command, "images", "-q", imgName>>
     IN IF r.err # NilErr
          THEN /\ fspawn' = <<q>>
               /\ fres' = [op |-> "Tag", imgName |-> imgName, query |-> o,
                           qerr |-> qerr, err |-> r.err]
          ELSE /\ fspawn' = <<q, <<d.Command, "tag", "-f", r.imgID, newTag>> >>
               /\ fres' = [op |-> "Tag", imgName |-> imgName, query |-> o,
                           qerr |-> qerr, err |-> e]
  /\ UNCHANGED <<d, runVars>>

FacadeInit ==
  /\ d = NoClient
  /\ RunnerIdle
  /\ fres = <<>>
  /\ fspawn = <<>>

FacadeNext ==
  \/ \E lp \in LookPaths, f \in CgroupFiles : FNewClient(lp, f)
  \/ \E h \in RegistryHosts : SetRegistryHost(h)
  \/ \E ok \in BOOLEAN : FIsConnected(ok)
  \/ Version
  \/ \E o \in {"", "layers"}, e \in CmdErrs : Push("app:latest", o, e)
  \/ \E o \in {"", "layers"}, e \in CmdErrs : Pull("app:latest", o, e)
  \/ \E q \in QueryOutcomes : GetImageID("app", q.o, q.err)
  \/ \E q \in QueryOutcomes, e \in CmdErrs : Tag("app", "app:v2", q.o, q.err, e)

FacadeSpec == FacadeInit /\ [][FacadeNext]_vars

(* ----------------------- properties of the operations ----------------- *)
\* the lines of a text: one per newline, and the unterminated rest if any
NumLines(o) ==
  Count(o, "\n") + (IF o # <<>> /\ o[Len(o)] # "\n" THEN 1 ELSE 0)

\* the first line of a text, without its newline
FirstLine(o) ==
  IF \E i \in DOMAIN o : o[i] = "\n"
    THEN SubSeq(o, 1, (CHOOSE i \in DOMAIN o :
                         o[i] = "\n" /\ \A j \in 1..(i - 1) : o[j] # "\n") - 1)
    ELSE o

TagSpawned == \E i \in DOMAIN fspawn : fspawn[i][2] = "tag"

\* C3: a Tag whose lookup printed zero IDs, or two or more, returns an
\* error and starts no `tag -f` process.
C3_AsStated ==
  (fres # <<>> /\ fres.op = "Tag" /\ fres.qerr = NilErr /\ NumLines(fres.query) # 1)
  => (fres.err # NilErr /\ ~TagSpawned)

\* C7: getImageID returns "" and no error on a result of zero lines, the
\* trimmed line and no error on one line, and an error with "" on two or
\* more lines, terminated or not.
C7_AsStated ==
  (fres # <<>> /\ fres.op = "getImageID" /\ fres.qerr = NilErr)
  => LET n == NumLines(fres.query)
     IN /\ n = 0 => (fres.imgID = "" /\ fres.err = NilErr)
        /\ n = 1 => /\ fres.imgID = Concat(Trim(FirstLine(fres.query), {" ", "\n"}))
                     /\ fres.err = NilErr
        /\ n >= 2 => (fres.imgID = "" /\ fres.err # NilErr)

\* the name Push and Pull are documented to pass on
ResolvedName(img) ==
  IF d.RegistryHost = "docker.io" THEN img ELSE d.RegistryHost \o "/" \o img

\* C8: Push and Pull run `push` / `pull` on the image name, prefixed with
\* RegistryHost and "/" exactly when RegistryHost is not "docker.io".
C8_RegistryPrefix ==
  /\ (fres # <<>> /\ fres.op = "Push")
       => fspawn = << <<d.Command, "push", ResolvedName(fres.imgName)>> >>
  /\ (fres # <<>> /\ fres.op = "Pull")
       => fspawn = << <<d.Command, "pull", ResolvedName(fres.imgName)>> >>
  /\ (fres # <<>> /\ fres.op \in {"Push", "Pull"})
       => (fspawn[1][3] # fres.imgName <=> d.RegistryHost # "docker.io")

C8_Witness ==
  /\ fres # <<>> /\ fres.op = "Pull" /\ d.RegistryHost = "myregistry.com"
  /\ fspawn = << <<"/usr/bin/docker", "pull", "myregistry.com/app:latest">> >>

Unreadable(f) == ~f.open \/ (f.id = "" /\ f.scanErr)

\* C10: when the executable is on PATH, NewClient returns a client and no
\* error whatever the detection returns, and on an unreadable metadata
\* file the client has IsInContainer false and ParentContainerId empty.
C10_DetectionNotFatal ==
  (fres # <<>> /\ fres.op = "NewClient" /\ fres.lp # "")
  => /\ fres.err = NilErr
     /\ d # NoClient
     /\ d.Command = fres.lp
     /\ Unreadable(fres.file) => (~d.IsInContainer /\ d.ParentContainerId = "")

C10_Witness ==
  /\ fres # <<>> /\ fres.op = "NewClient" /\ fres.lp # "" /\ ~fres.file.open
  /\ d # NoClient /\ ~d.IsInContainer
\* C20: on the client NewClient returned, IsInContainer is true exactly
\* when ParentContainerId is not empty.
C20_AsStated ==
  (fres # <<>> /\ fres.op = "NewClient" /\ d # NoClient)
  => (d.IsInContainer <=> d.ParentContainerId # "")
====
